---- MODULE Spec2Model ----
(***************************************************************************)
(* Run orchestration of the backtest platform: the run_headers table       *)
(* (BacktestsRepo), the polling worker loop of worker_main.py with its     *)
(* three handlers, the API enqueue path, the in-memory job queue with its  *)
(* background worker, and the process supervisor of manager_main.py.       *)
(*                                                                         *)
(* A worker loop is modelled per transaction: every `with                  *)
(* db.session_scope()` block of the source is one step, because a block    *)
(* commits atomically and other sessions see nothing of it before.  The    *)
(* claim transaction is two steps (the SELECT ... FOR UPDATE SKIP LOCKED   *)
(* that takes the row lock, then the UPDATE and COMMIT that release it),   *)
(* so that other pollers run while the lock is held.                       *)
(*                                                                         *)
(* Progress is in whole percent; ended_at is abstracted to set / not set.  *)
(*                                                                         *)
(* The functions of the evaluation engine and of the clients around it     *)
(* (grid parsing, constraint test, walk-forward windows, choice of the     *)
(* best row, captured output, the OKX candlestick call, the job queue)     *)
(* are exercised call by call in specifications of their own.              *)
(***************************************************************************)
EXTENDS Integers, Sequences, FiniteSets, TLC

\* ---------------------------------------------------------------- bounds
MaxRuns == 2

\* Worker loops started by worker_main (WORKER_CONCURRENCY, default 2).
CONCURRENCY == 2

Workers == 1..CONCURRENCY
RunIds == 1..MaxRuns

\* ------------------------------------------------------------ vocabulary
NULL == "NULL"
\* Python None as an argument: of an int parameter, of a str parameter.
NoneInt == -1
None == "None"
NoRun == 0

RunTypes == {"backtest", "optimize", "wfo"}
SupportedTypes == {"backtest", "optimize", "wfo"}
Terminal == {"succeeded", "failed"}

\* Messages an exception raised by the engine or by add_result may carry;
\* str(exc) of an exception built without arguments is the empty string.
ExcMsgs == {"", "boom"}
MsgMissing == "missing required parameters"
MsgExit == "exited with code"
MsgNoResults == "No results collected"
MsgNoFolds == "No folds produced"
MsgDb == "database error"

\* Fractions (in percent of the whole) the engine may report to on_progress.
Fracs == {-5, 10, 50, 120}

\* Return codes of run_backtest / run_optimize / run_wfo.
RetCodes(rt) == IF rt = "backtest" THEN {0, 1} ELSE {0, 1, 2, 3}

VARIABLES
    rows,        \* run_headers: sequence of rows, id = index
    lockedBy,    \* row lock: run id -> worker holding FOR UPDATE lock, 0 if none
    results,     \* run_results rows: set of <<run_id, label>>
    jobs,        \* InMemoryQueue._queue: sequence of run ids carried by the jobs
    pc,          \* worker loop position
    cur,         \* worker loop: run_id of the claimed run
    rtype,       \* worker loop: run_type read from the claimed row
    last_pct,    \* handler: last_pct["v"]
    rc,          \* handler: return code of the engine call
    res_out,     \* worker loop: results_out is non-empty
    exc,         \* message of the exception in flight
    claimCount,  \* history: number of claim steps that returned each run id
    bg_pc,       \* background worker position
    bg_run,      \* background worker: run_id of the dequeued job
    sup_pc,      \* supervisor position
    sup_workers, \* supervisor: list `workers` of spawned processes
    us_call,     \* last direct call of update_status: its run_id and outcome
    scale,       \* supervisor: the settings and count read, and `desired`
    opt_pc,      \* run_optimize: position
    grid_spec,   \* run_optimize: the grid string, a sequence of characters
    constraint,  \* run_optimize: the constraint expression
    grid,        \* run_optimize: dict returned by _parse_grid, in key order
    flat,        \* run_optimize: params of the strategy instances run
    opt_rows,    \* run_optimize: list `rows` of candidates
    opt_rc,      \* run_optimize: return code
    wfo_pc,      \* run_wfo: position
    df,          \* run_wfo: the timestamps df["ts"] of the bars loaded
    wfo_args,    \* run_wfo: train_months, test_months, step_months, and
                 \* whether the grid parses and a window has a best row
    train_start, \* run_wfo: train_start of the loop
    folds,       \* run_wfo: list `folds`
    wfo_rc,      \* run_wfo: return code
    pick,        \* _pick_best_by_objective: rows, objective and the row returned
    okx,         \* get_candlesticks: the call, the SDK's answer and the outcome
    log,         \* _Writer: text printed and _last_line per stream, log entries
    q_out        \* InMemoryQueue: what the dequeue calls returned, in order

vars == <<rows, lockedBy, results, jobs, pc, cur, rtype, last_pct, rc, res_out,
          exc, claimCount, bg_pc, bg_run, sup_pc, sup_workers, us_call,
          scale, opt_pc, grid_spec, constraint, grid, flat, opt_rows, opt_rc,
          wfo_pc, df, wfo_args, train_start, folds, wfo_rc, pick, okx, log,
          q_out>>

wvars == <<pc, cur, rtype, last_pct, rc, res_out, exc>>
bgvars == <<bg_pc, bg_run>>
supvars == <<sup_pc, sup_workers>>
\* state of the components exercised call by call
repovars == <<us_call>>
scalevars == <<scale>>
optvars == <<opt_pc, grid_spec, constraint, grid, flat, opt_rows, opt_rc>>
wfovars == <<wfo_pc, df, wfo_args, train_start, folds, wfo_rc>>
pickvars == <<pick>>
okxvars == <<okx>>
logvars == <<log>>
queuevars == <<q_out>>
unitvars == <<pickvars, okxvars, logvars, queuevars>>
callvars == <<repovars, scalevars, optvars, wfovars, unitvars>>

\* ------------------------------------------------------------- Run Store

\* BacktestsRepo.create: a new row, status queued, progress 0.
create(rws, run_type) ==
    Append(rws, [run_type   |-> run_type,
                 started_at |-> Len(rws) + 1,
                 ended_at   |-> NULL,
                 status     |-> "queued",
                 progress   |-> 0,
                 error      |-> NULL])

\* An UPDATE that is taken to have matched whatever the id.
RowFoundAlways(rws, run_id) == TRUE

\* update_status raises "run not found" when no row matched.
RowFound(rws, run_id) == run_id \in DOMAIN rws

\* update_status that stamps ended_at on "succeeded" only.
update_status_ended_on_success(rws, run_id, status, progress, error) ==
    [rws EXCEPT ![run_id] =
        [@ EXCEPT !.status   = status,
                  !.progress = IF progress # NoneInt THEN progress ELSE @,
                  !.error    = IF error # None THEN error ELSE @,
                  !.ended_at = IF status \in {"succeeded"} THEN "set" ELSE @]]

\* BacktestsRepo.update_status: the values written by the UPDATE.
update_status(rws, run_id, status, progress, error) ==
    [rws EXCEPT ![run_id] =
        [@ EXCEPT !.status   = status,
                  !.progress = IF progress # NoneInt THEN progress ELSE @,
                  !.error    = IF error # None THEN error ELSE @,
                  !.ended_at = IF status \in {"succeeded", "failed"} THEN "set" ELSE @]]

\* Eligible without the row-lock condition (a plain SELECT, no SKIP LOCKED).
EligibleIgnoringLocks(rws, lck, w) ==
    {r \in DOMAIN rws : /\ rws[r].run_type \in SupportedTypes
                        /\ rws[r].status = "queued"}

\* Rows the SELECT of fetch_next_queued may return for poller w: queued,
\* of a supported type, and not locked by another transaction.
Eligible(rws, lck, w) ==
    {r \in DOMAIN rws : /\ rws[r].run_type \in SupportedTypes
                        /\ rws[r].status = "queued"
                        /\ lck[r] \in {0, w}}

\* fetch_next_queued with ORDER BY started_at DESC.
fetch_next_queued_latest(rws, lck, w) ==
    LET el == Eligible(rws, lck, w)
    IN IF el = {} THEN NoRun
       ELSE CHOOSE r \in el : \A q \in el : rws[r].started_at >= rws[q].started_at

\* BacktestsRepo.fetch_next_queued: ORDER BY started_at ASC LIMIT 1.
fetch_next_queued(rws, lck, w) ==
    LET el == Eligible(rws, lck, w)
    IN IF el = {} THEN NoRun
       ELSE CHOOSE r \in el : \A q \in el : rws[r].started_at <= rws[q].started_at

\* An UPDATE of a row waits while another transaction holds the row's lock.
CanWrite(r, holder) == lockedBy[r] \in {0, holder}

\* ------------------------------------------------------------------- API

\* enqueue_backtest / enqueue_optimization / enqueue_walkforward: insert the
\* queued row, commit, then put a job for the same run id on the queue.
ApiEnqueue ==
    /\ Len(rows) < MaxRuns
    /\ \E rt \in RunTypes : rows' = create(rows, rt)
    /\ jobs' = Append(jobs, Len(rows) + 1)
    /\ UNCHANGED <<lockedBy, results, claimCount>>
    /\ UNCHANGED <<wvars, bgvars, supvars>>
    /\ UNCHANGED callvars

\* ----------------------------------------------------------- Worker Loop

Idle == [p \in Workers |-> "off"]

\* worker_main.main: start one worker_loop thread.
StartWorker(w) ==
    /\ pc[w] = "off"
    /\ pc' = [pc EXCEPT ![w] = "poll"]
    /\ UNCHANGED <<rows, lockedBy, results, jobs, cur, rtype, last_pct, rc,
                   res_out, exc, claimCount>>
    /\ UNCHANGED <<bgvars, supvars>>
    /\ UNCHANGED callvars

\* worker_loop: fetch_next_queued inside the claim session.  A row found is
\* locked until the session ends; none found sends the loop to sleep.  A
\* failing query (ok = FALSE) is re-raised by session_scope and nothing in
\* worker_loop catches it: the thread ends.
Fetch(w, ok) ==
    /\ pc[w] = "poll"
    /\ LET r == fetch_next_queued(rows, lockedBy, w)
       IN IF ~ok
          THEN /\ pc' = [pc EXCEPT ![w] = "crashed"]
               /\ UNCHANGED <<lockedBy, cur, rtype>>
          ELSE IF r = NoRun
          THEN /\ pc' = [pc EXCEPT ![w] = "sleep"]
               /\ UNCHANGED <<lockedBy, cur, rtype>>
          ELSE /\ lockedBy' = [lockedBy EXCEPT ![r] = w]
               /\ cur' = [cur EXCEPT ![w] = r]
               /\ rtype' = [rtype EXCEPT ![w] = rows[r].run_type]
               /\ pc' = [pc EXCEPT ![w] = "claimed"]
    /\ UNCHANGED <<rows, results, jobs, last_pct, rc, res_out, exc, claimCount>>
    /\ UNCHANGED <<bgvars, supvars>>
    /\ UNCHANGED callvars

\* worker_loop: update_status(running, progress=1) and commit; the commit
\* releases the row lock and the claim step has returned the run.  When the
\* update or the commit fails the session rolls back (the row stays queued,
\* the lock is released) and the exception leaves worker_loop.
MarkRunning(w, ok) ==
    /\ pc[w] = "claimed"
    /\ lockedBy' = [lockedBy EXCEPT ![cur[w]] = 0]
    /\ IF ok
       THEN /\ rows' = update_status(rows, cur[w], "running", 1, None)
            /\ claimCount' = [claimCount EXCEPT ![cur[w]] = @ + 1]
            /\ pc' = [pc EXCEPT ![w] = "mark5"]
       ELSE /\ pc' = [pc EXCEPT ![w] = "crashed"]
            /\ UNCHANGED <<rows, claimCount>>
    /\ UNCHANGED <<results, jobs, cur, rtype, last_pct, rc, res_out, exc>>
    /\ UNCHANGED <<bgvars, supvars>>
    /\ UNCHANGED callvars

\* process_backtest / process_optimization / process_wfo: the first
\* update_status(running, progress=5); a failure is logged and re-raised.
Mark5(w, ok) ==
    /\ pc[w] = "mark5"
    /\ CanWrite(cur[w], w)
    /\ IF ok
       THEN /\ rows' = update_status(rows, cur[w], "running", 5, None)
            /\ pc' = [pc EXCEPT ![w] = IF rtype[w] \in {"optimize", "wfo"}
                                       THEN "validate" ELSE "mark20"]
            /\ UNCHANGED exc
       ELSE /\ exc' = [exc EXCEPT ![w] = MsgDb]
            /\ pc' = [pc EXCEPT ![w] = "except"]
            /\ UNCHANGED rows
    /\ UNCHANGED <<lockedBy, results, jobs, cur, rtype, last_pct, rc, res_out,
                   claimCount>>
    /\ UNCHANGED <<bgvars, supvars>>
    /\ UNCHANGED callvars

\* process_backtest: update_status(running, progress=20); a failure is
\* rolled back and swallowed.
Mark20(w, ok) ==
    /\ pc[w] = "mark20"
    /\ CanWrite(cur[w], w)
    /\ rows' = IF ok THEN update_status(rows, cur[w], "running", 20, None) ELSE rows
    /\ pc' = [pc EXCEPT ![w] = "validate"]
    /\ UNCHANGED <<lockedBy, results, jobs, cur, rtype, last_pct, rc, res_out,
                   exc, claimCount>>
    /\ UNCHANGED <<bgvars, supvars>>
    /\ UNCHANGED callvars

\* The handlers' check of the payload: a missing strategy_id, instrument_id,
\* bar, strategy or grid_spec raises ValueError; otherwise last_pct starts
\* at 0.0 and the engine is called.
Validate(w, complete) ==
    /\ pc[w] = "validate"
    /\ IF complete
       THEN /\ last_pct' = [last_pct EXCEPT ![w] = 0]
            /\ pc' = [pc EXCEPT ![w] = "engine"]
            /\ UNCHANGED exc
       ELSE /\ exc' = [exc EXCEPT ![w] = MsgMissing]
            /\ pc' = [pc EXCEPT ![w] = "except"]
            /\ UNCHANGED last_pct
    /\ UNCHANGED <<rows, lockedBy, results, jobs, cur, rtype, rc, res_out,
                   claimCount>>
    /\ UNCHANGED <<bgvars, supvars>>
    /\ UNCHANGED callvars

\* on_progress: pct = round(max(0.0, min(1.0, frac)) * 100.0, 2).
Pct(frac) == IF frac < 0 THEN 0 ELSE IF frac > 100 THEN 100 ELSE frac

\* on_progress: a value is reported only when it exceeds last_pct["v"].
Reports(last, frac) == Pct(frac) > last

\* The engine calls on_progress(frac) while it runs.  A reported value
\* updates last_pct and is written with update_status(running, pct); a
\* failure of that write is swallowed.
EngineProgress(w, frac, ok) ==
    /\ pc[w] = "engine"
    /\ CanWrite(cur[w], w)
    /\ Reports(last_pct[w], frac)
    /\ last_pct' = [last_pct EXCEPT ![w] = Pct(frac)]
    /\ rows' = IF ok THEN update_status(rows, cur[w], "running", Pct(frac), None)
               ELSE rows
    /\ UNCHANGED <<lockedBy, results, jobs, pc, cur, rtype, rc, res_out, exc,
                   claimCount>>
    /\ UNCHANGED <<bgvars, supvars>>
    /\ UNCHANGED callvars

\* Where a handler goes once the engine has returned code c: process_backtest
\* writes progress 90 first; the other two finish on c at once (3 = nothing
\* collected, any other non-zero code raises RuntimeError).
AfterEngine(rt, c) ==
    IF rt \notin {"optimize", "wfo"} THEN "mark90"
    ELSE IF c = 3 THEN "succeed_empty"
    ELSE IF c # 0 THEN "except"
    ELSE "succeed"

\* The engine call returns code c; out says whether it filled results_out
\* (process_backtest only).
EngineReturn(w, c, out) ==
    /\ pc[w] = "engine"
    /\ c \in RetCodes(rtype[w])
    /\ out => rtype[w] = "backtest" /\ c = 0
    /\ rc' = [rc EXCEPT ![w] = c]
    /\ res_out' = [res_out EXCEPT ![w] = out]
    /\ pc' = [pc EXCEPT ![w] = AfterEngine(rtype[w], c)]
    /\ exc' = [exc EXCEPT ![w] = IF AfterEngine(rtype[w], c) = "except"
                                 THEN MsgExit ELSE @]
    /\ UNCHANGED <<rows, lockedBy, results, jobs, cur, rtype, last_pct, claimCount>>
    /\ UNCHANGED <<bgvars, supvars>>
    /\ UNCHANGED callvars

\* The engine call raises an exception with message m.
EngineRaise(w, m) ==
    /\ pc[w] = "engine"
    /\ exc' = [exc EXCEPT ![w] = m]
    /\ pc' = [pc EXCEPT ![w] = "except"]
    /\ UNCHANGED <<rows, lockedBy, results, jobs, cur, rtype, last_pct, rc,
                   res_out, claimCount>>
    /\ UNCHANGED <<bgvars, supvars>>
    /\ UNCHANGED callvars

\* process_backtest: update_status(running, progress=90), failure swallowed,
\* then `if rc != 0: raise RuntimeError`.
Mark90(w, ok) ==
    /\ pc[w] = "mark90"
    /\ CanWrite(cur[w], w)
    /\ rows' = IF ok THEN update_status(rows, cur[w], "running", 90, None) ELSE rows
    /\ pc' = [pc EXCEPT ![w] = IF rc[w] # 0 THEN "except" ELSE "succeed"]
    /\ exc' = [exc EXCEPT ![w] = IF rc[w] # 0 THEN MsgExit ELSE @]
    /\ UNCHANGED <<lockedBy, results, jobs, cur, rtype, last_pct, rc, res_out,
                   claimCount>>
    /\ UNCHANGED <<bgvars, supvars>>
    /\ UNCHANGED callvars

\* Normal completion: update_status(succeeded, progress=100, error=None).
\* Back in worker_loop a backtest with results goes on to persist them.
Succeed(w, ok) ==
    /\ pc[w] = "succeed"
    /\ CanWrite(cur[w], w)
    /\ IF ok
       THEN /\ rows' = update_status(rows, cur[w], "succeeded", 100, None)
            /\ pc' = [pc EXCEPT ![w] = IF res_out[w] THEN "persist" ELSE "sleep"]
            /\ UNCHANGED exc
       ELSE /\ exc' = [exc EXCEPT ![w] = MsgDb]
            /\ pc' = [pc EXCEPT ![w] = "except"]
            /\ UNCHANGED rows
    /\ UNCHANGED <<lockedBy, results, jobs, cur, rtype, last_pct, rc, res_out,
                   claimCount>>
    /\ UNCHANGED <<bgvars, supvars>>
    /\ UNCHANGED callvars

\* The text process_optimization / process_wfo pass as error on rc == 3.
EmptyNote(rt) == IF rt = "wfo" THEN MsgNoFolds ELSE MsgNoResults

\* process_optimization / process_wfo on rc == 3:
\* update_status(succeeded, progress=100, error=<note>) and return.
SucceedEmpty(w, ok) ==
    /\ pc[w] = "succeed_empty"
    /\ CanWrite(cur[w], w)
    /\ IF ok
       THEN /\ rows' = update_status(rows, cur[w], "succeeded", 100, EmptyNote(rtype[w]))
            /\ pc' = [pc EXCEPT ![w] = "sleep"]
            /\ UNCHANGED exc
       ELSE /\ exc' = [exc EXCEPT ![w] = MsgDb]
            /\ pc' = [pc EXCEPT ![w] = "except"]
            /\ UNCHANGED rows
    /\ UNCHANGED <<lockedBy, results, jobs, cur, rtype, last_pct, rc, res_out,
                   claimCount>>
    /\ UNCHANGED <<bgvars, supvars>>
    /\ UNCHANGED callvars

\* worker_loop: `if results_out:` add_result(label="main") and, when the
\* engine produced baseline metrics, add_result(label="baseline"), in one
\* session.
Persist(w, baseline) ==
    /\ pc[w] = "persist"
    /\ results' = results \cup {<<cur[w], "main">>}
                          \cup (IF baseline THEN {<<cur[w], "baseline">>} ELSE {})
    /\ pc' = [pc EXCEPT ![w] = "sleep"]
    /\ UNCHANGED <<rows, lockedBy, jobs, cur, rtype, last_pct, rc, res_out, exc,
                   claimCount>>
    /\ UNCHANGED <<bgvars, supvars>>
    /\ UNCHANGED callvars

\* worker_loop: add_result (its flush) or the commit of that session raises
\* with message m; the session rolls back and the except clause takes over.
PersistRaise(w, m) ==
    /\ pc[w] = "persist"
    /\ exc' = [exc EXCEPT ![w] = m]
    /\ pc' = [pc EXCEPT ![w] = "except"]
    /\ UNCHANGED <<rows, lockedBy, results, jobs, cur, rtype, last_pct, rc,
                   res_out, claimCount>>
    /\ UNCHANGED <<bgvars, supvars>>
    /\ UNCHANGED callvars

\* Fail without progress=100 in the failure update.
FailKeepingProgress(w, ok) ==
    /\ pc[w] = "except"
    /\ CanWrite(cur[w], w)
    /\ IF ok
       THEN /\ rows' = update_status(rows, cur[w], "failed", NoneInt, exc[w])
            /\ pc' = [pc EXCEPT ![w] = "sleep"]
       ELSE /\ pc' = [pc EXCEPT ![w] = "crashed"]
            /\ UNCHANGED rows
    /\ UNCHANGED <<lockedBy, results, jobs, cur, rtype, last_pct, rc, res_out,
                   exc, claimCount>>
    /\ UNCHANGED <<bgvars, supvars>>
    /\ UNCHANGED callvars

\* worker_loop, except clause:
\* update_status(failed, progress=100, error=str(exc)).  When that update
\* fails the exception leaves worker_loop and the thread ends.
Fail(w, ok) ==
    /\ pc[w] = "except"
    /\ CanWrite(cur[w], w)
    /\ IF ok
       THEN /\ rows' = update_status(rows, cur[w], "failed", 100, exc[w])
            /\ pc' = [pc EXCEPT ![w] = "sleep"]
       ELSE /\ pc' = [pc EXCEPT ![w] = "crashed"]
            /\ UNCHANGED rows
    /\ UNCHANGED <<lockedBy, results, jobs, cur, rtype, last_pct, rc, res_out,
                   exc, claimCount>>
    /\ UNCHANGED <<bgvars, supvars>>
    /\ UNCHANGED callvars

\* worker_loop: time.sleep(POLL_SECONDS) is over; the next iteration starts
\* with run = None, payload = {}, run_type = None.
Wake(w) ==
    /\ pc[w] = "sleep"
    /\ pc' = [pc EXCEPT ![w] = "poll"]
    /\ cur' = [cur EXCEPT ![w] = NoRun]
    /\ rtype' = [rtype EXCEPT ![w] = NULL]
    /\ last_pct' = [last_pct EXCEPT ![w] = 0]
    /\ rc' = [rc EXCEPT ![w] = NoneInt]
    /\ res_out' = [res_out EXCEPT ![w] = FALSE]
    /\ exc' = [exc EXCEPT ![w] = NULL]
    /\ UNCHANGED <<rows, lockedBy, results, jobs, claimCount>>
    /\ UNCHANGED <<bgvars, supvars>>
    /\ UNCHANGED callvars

\* One step of worker loop w with a store that answers every call.
WorkerStep(w) ==
    \/ Fetch(w, TRUE)
    \/ MarkRunning(w, TRUE)
    \/ Mark5(w, TRUE)
    \/ Mark20(w, TRUE)
    \/ \E complete \in BOOLEAN : Validate(w, complete)
    \/ \E frac \in Fracs : EngineProgress(w, frac, TRUE)
    \/ \E c \in 0..3, out \in BOOLEAN : EngineReturn(w, c, out)
    \/ \E m \in ExcMsgs : EngineRaise(w, m)
    \/ Mark90(w, TRUE)
    \/ Succeed(w, TRUE)
    \/ SucceedEmpty(w, TRUE)
    \/ \E baseline \in BOOLEAN : Persist(w, baseline)
    \/ \E m \in ExcMsgs : PersistRaise(w, m)
    \/ Fail(w, TRUE)
    \/ Wake(w)

\* One step of worker loop w when any call to the store may fail.
WorkerStepFaulty(w) ==
    \/ \E ok \in BOOLEAN : Fetch(w, ok)
    \/ \E ok \in BOOLEAN : MarkRunning(w, ok)
    \/ \E ok \in BOOLEAN : Mark5(w, ok)
    \/ \E ok \in BOOLEAN : Mark20(w, ok)
    \/ \E complete \in BOOLEAN : Validate(w, complete)
    \/ \E frac \in Fracs, ok \in BOOLEAN : EngineProgress(w, frac, ok)
    \/ \E c \in 0..3, out \in BOOLEAN : EngineReturn(w, c, out)
    \/ \E m \in ExcMsgs : EngineRaise(w, m)
    \/ \E ok \in BOOLEAN : Mark90(w, ok)
    \/ \E ok \in BOOLEAN : Succeed(w, ok)
    \/ \E ok \in BOOLEAN : SucceedEmpty(w, ok)
    \/ \E baseline \in BOOLEAN : Persist(w, baseline)
    \/ \E m \in ExcMsgs : PersistRaise(w, m)
    \/ \E ok \in BOOLEAN : Fail(w, ok)
    \/ Wake(w)

\* Positions of a worker loop between its claim commit and the end of the
\* iteration: the handler of run cur[w] is executing.
InFlight == {"mark5", "mark20", "validate", "engine", "mark90", "succeed",
             "succeed_empty", "persist", "except"}

\* ------------------------------------- In-memory queue background worker

\* Lock holder id of the background worker's session.
BG == CONCURRENCY + 1

\* dequeue returning the newest job (pop from the right end).
dequeue_newest(q) == IF q = <<>> THEN NoRun ELSE q[Len(q)]

\* InMemoryQueue.dequeue: popleft, or None on an empty queue.
dequeue(q) == IF q = <<>> THEN NoRun ELSE Head(q)

\* start_background_worker: start the _handle_backtest thread.
BgStart ==
    /\ bg_pc = "off"
    /\ bg_pc' = "poll"
    /\ UNCHANGED <<rows, lockedBy, results, jobs, claimCount, bg_run>>
    /\ UNCHANGED <<wvars, supvars>>
    /\ UNCHANGED callvars

\* _handle_backtest: job = queue.dequeue(); no job sends it to sleep.
BgDequeue ==
    /\ bg_pc = "poll"
    /\ bg_run' = dequeue(jobs)
    /\ jobs' = IF jobs = <<>> THEN jobs ELSE Tail(jobs)
    /\ bg_pc' = IF jobs = <<>> THEN "sleep" ELSE "begin"
    /\ UNCHANGED <<rows, lockedBy, results, claimCount>>
    /\ UNCHANGED <<wvars, supvars>>
    /\ UNCHANGED callvars

\* _handle_backtest: time.sleep(1.0) is over.
BgWake ==
    /\ bg_pc = "sleep"
    /\ bg_pc' = "poll"
    /\ UNCHANGED <<rows, lockedBy, results, jobs, claimCount, bg_run>>
    /\ UNCHANGED <<wvars, supvars>>
    /\ UNCHANGED callvars

\* _handle_backtest: update_status(running, progress=10) inside the session;
\* the UPDATE takes the row lock and stays uncommitted during the sleep.
BgMarkRunning ==
    /\ bg_pc = "begin"
    /\ RowFound(rows, bg_run)
    /\ CanWrite(bg_run, BG)
    /\ lockedBy' = [lockedBy EXCEPT ![bg_run] = BG]
    /\ bg_pc' = "work"
    /\ UNCHANGED <<rows, results, jobs, claimCount, bg_run>>
    /\ UNCHANGED <<wvars, supvars>>
    /\ UNCHANGED callvars

\* _handle_backtest: update_status(succeeded, progress=100), then the commit
\* of the session makes both updates visible and releases the lock.
BgSucceed ==
    /\ bg_pc = "work"
    /\ rows' = update_status(update_status(rows, bg_run, "running", 10, None),
                             bg_run, "succeeded", 100, None)
    /\ lockedBy' = [lockedBy EXCEPT ![bg_run] = 0]
    /\ bg_pc' = "poll"
    /\ bg_run' = NoRun
    /\ UNCHANGED <<results, jobs, claimCount>>
    /\ UNCHANGED <<wvars, supvars>>
    /\ UNCHANGED callvars

BgStep == BgStart \/ BgDequeue \/ BgWake \/ BgMarkRunning \/ BgSucceed

\* ------------------------------------------------- Process Supervisor

MIN_PROCS == 1
WORKER_CONCURRENCY == 1
PROC_CAPACITY == WORKER_CONCURRENCY
\* MANAGER_MAX_PROCS is set to the number of process slots of the model, one
\* slot per worker loop (a spawned process runs WORKER_CONCURRENCY = 1 loop).
MAX_PROCS == CONCURRENCY

\* get_counts that counts the backtest rows whatever their status.
get_counts_any_status(rws, st) ==
    Cardinality({r \in DOMAIN rws : rws[r].run_type = "backtest"})

\* get_counts: rows with run_type = 'backtest' in the given status.
get_counts(rws, st) ==
    Cardinality({r \in DOMAIN rws : rws[r].run_type = "backtest" /\ rws[r].status = st})

\* prune_workers: keep the processes whose poll() is None (still running).
prune_workers(ws, pcs) == SelectSeq(ws, LAMBDA p : pcs[p] # "exited")

\* math.ceil(a / b) for a >= 0, b >= 1.
Ceil(a, b) == (a + b - 1) \div b

Max(a, b) == IF a >= b THEN a ELSE b
Min(a, b) == IF a <= b THEN a ELSE b

\* desired computed with the floor of the quotient.
DesiredFloor(queued, proc_capacity, min_procs, max_procs) ==
    Min(Max(min_procs, queued \div Max(1, proc_capacity)), max_procs)

\* main: desired = max(MIN_PROCS, math.ceil(queued / max(1, PROC_CAPACITY)));
\* desired = min(desired, MAX_PROCS) -- for any values of the settings.
DesiredFor(queued, proc_capacity, min_procs, max_procs) ==
    Min(Max(min_procs, Ceil(queued, Max(1, proc_capacity))), max_procs)

\* main: desired under the settings of the model.
Desired(queued) == DesiredFor(queued, PROC_CAPACITY, MIN_PROCS, MAX_PROCS)

RECURSIVE SeqOfSet(_)
SeqOfSet(S) ==
    IF S = {} THEN <<>>
    ELSE LET x == CHOOSE x \in S : \A y \in S : x <= y
         IN <<x>> \o SeqOfSet(S \ {x})

Range(sq) == {sq[i] : i \in DOMAIN sq}

\* manager_main.main started.
SupStart ==
    /\ sup_pc = "off"
    /\ sup_pc' = "run"
    /\ UNCHANGED <<rows, lockedBy, results, jobs, claimCount, sup_workers>>
    /\ UNCHANGED <<wvars, bgvars>>
    /\ UNCHANGED callvars

\* The state of the threads of the processes in `gone` is lost with them, and
\* the processes in `born` start with a fresh worker loop.
ProcsReplaced(gone, born) ==
    /\ pc' = [p \in Workers |-> IF p \in born THEN "poll"
                                ELSE IF p \in gone THEN "off" ELSE pc[p]]
    /\ cur' = [p \in Workers |-> IF p \in gone \cup born THEN NoRun ELSE cur[p]]
    /\ rtype' = [p \in Workers |-> IF p \in gone \cup born THEN NULL ELSE rtype[p]]
    /\ last_pct' = [p \in Workers |-> IF p \in gone \cup born THEN 0 ELSE last_pct[p]]
    /\ rc' = [p \in Workers |-> IF p \in gone \cup born THEN NoneInt ELSE rc[p]]
    /\ res_out' = [p \in Workers |-> IF p \in gone \cup born THEN FALSE ELSE res_out[p]]
    /\ exc' = [p \in Workers |-> IF p \in gone \cup born THEN NULL ELSE exc[p]]
    /\ lockedBy' = [r \in RunIds |-> IF lockedBy[r] \in gone THEN 0 ELSE lockedBy[r]]

\* A control loop that marks as failed the run held by the process it
\* terminates.
SupIterateFailingRuns(ok) ==
    /\ sup_pc = "run"
    /\ sup_pc' = "run"
    /\ LET alive   == prune_workers(sup_workers, pc)
           current == Len(alive)
           desired == Desired(get_counts(rows, "queued"))
           free    == {p \in Workers : pc[p] \in {"off", "exited"}}
           added   == SubSeq(SeqOfSet(free), 1, desired - current)
           killed  == {alive[i] : i \in (desired + 1)..current}
       IN /\ sup_workers' = IF desired > current THEN alive \o added
                            ELSE SubSeq(alive, 1, Min(desired, current))
          /\ rows' = [r \in DOMAIN rows |->
                        IF \E p \in killed : cur[p] = r
                        THEN [rows[r] EXCEPT !.status = "failed"] ELSE rows[r]]
          /\ ProcsReplaced(killed, Range(added))
    /\ UNCHANGED <<results, jobs, claimCount>>
    /\ UNCHANGED bgvars
    /\ UNCHANGED callvars

\* main, one iteration of the control loop: count, prune, compute desired,
\* spawn (desired - current) processes or pop and terminate
\* (current - desired), sleep.  A failing get_counts raises out of main,
\* which catches KeyboardInterrupt only.
SupIterate(ok) ==
    /\ sup_pc = "run"
    /\ IF ~ok
       THEN /\ sup_pc' = "crashed"
            /\ UNCHANGED <<sup_workers, wvars, lockedBy>>
       ELSE LET queued  == get_counts(rows, "queued")
                alive   == prune_workers(sup_workers, pc)
                current == Len(alive)
                desired == Desired(queued)
                exited  == {p \in Range(sup_workers) : pc[p] = "exited"}
                free    == {p \in Workers : pc[p] \in {"off", "exited"}}
                added   == SubSeq(SeqOfSet(free), 1, desired - current)
                killed  == {alive[i] : i \in (desired + 1)..current}
            IN /\ sup_pc' = "run"
               /\ sup_workers' = IF desired > current THEN alive \o added
                                 ELSE SubSeq(alive, 1, Min(desired, current))
               /\ ProcsReplaced(killed \cup (exited \ Range(added)), Range(added))
    /\ UNCHANGED <<rows, results, jobs, claimCount>>
    /\ UNCHANGED bgvars
    /\ UNCHANGED callvars

\* main on KeyboardInterrupt: every process of the list is terminated and
\* waited for, then main returns.
SupStop ==
    /\ sup_pc = "run"
    /\ sup_pc' = "stopped"
    /\ ProcsReplaced({p \in Range(sup_workers) : pc[p] # "exited"}, {})
    /\ UNCHANGED <<rows, results, jobs, claimCount, sup_workers>>
    /\ UNCHANGED bgvars
    /\ UNCHANGED callvars

\* worker_main.main on KeyboardInterrupt: stop_event is set, each thread is
\* joined for at most 2 seconds, then main returns and the daemon thread
\* ends with the process wherever it is.
Shutdown(p) ==
    /\ pc[p] \notin {"off", "exited"}
    /\ pc' = [pc EXCEPT ![p] = "exited"]
    /\ cur' = [cur EXCEPT ![p] = NoRun]
    /\ rtype' = [rtype EXCEPT ![p] = NULL]
    /\ last_pct' = [last_pct EXCEPT ![p] = 0]
    /\ rc' = [rc EXCEPT ![p] = NoneInt]
    /\ res_out' = [res_out EXCEPT ![p] = FALSE]
    /\ exc' = [exc EXCEPT ![p] = NULL]
    /\ lockedBy' = [r \in RunIds |-> IF lockedBy[r] = p THEN 0 ELSE lockedBy[r]]
    /\ UNCHANGED <<rows, results, jobs, claimCount>>
    /\ UNCHANGED <<bgvars, supvars>>
    /\ UNCHANGED callvars

\* ------------------------------------------------ direct repository calls

MsgNotFound == "run not found for update_status"

\* Arguments update_status is called with.
StatusArgs == {"running", "failed"}
ProgressArgs == {NoneInt, 50}
ErrorArgs == {None, "boom"}
RunIdArgs == 0..(MaxRuns + 1)

\* A caller runs update_status in a session of its own.  An UPDATE that
\* matched no row (rowcount == 0) raises ValueError and the session rolls
\* back; otherwise the values are written and committed.
CallUpdateStatus(run_id, status, progress, error) ==
    /\ run_id \in DOMAIN rows => CanWrite(run_id, 0)
    /\ IF RowFound(rows, run_id)
       THEN /\ rows' = update_status(rows, run_id, status, progress, error)
            /\ us_call' = [run_id |-> run_id, exc |-> NULL]
       ELSE /\ rows' = rows
            /\ us_call' = [run_id |-> run_id, exc |-> MsgNotFound]
    /\ UNCHANGED <<lockedBy, results, jobs, claimCount>>
    /\ UNCHANGED <<wvars, bgvars, supvars, scalevars, optvars, wfovars>>
    /\ UNCHANGED unitvars

\* ------------------------------------------------------- scaling decision

MaxQueued == 10
\* MANAGER_PROC_CAPACITY, MANAGER_MIN_PROCS and MANAGER_MAX_PROCS as the
\* environment may set them.
CapacityArgs == 0..3
ProcsArgs == 0..4

\* main, lines 62-67 under the given settings and queued count.
ComputeDesired(queued, proc_capacity, min_procs, max_procs) ==
    /\ scale' = [queued |-> queued, cap |-> proc_capacity, min |-> min_procs,
                 max |-> max_procs,
                 desired |-> DesiredFor(queued, proc_capacity, min_procs, max_procs)]
    /\ UNCHANGED <<rows, lockedBy, results, jobs, claimCount>>
    /\ UNCHANGED <<wvars, bgvars, supvars, repovars, optvars, wfovars>>
    /\ UNCHANGED unitvars

\* --------------------------------------------- grid and constraint
\* Text is a sequence of one-character strings.

Digits == <<"0", "1", "2", "3", "4", "5", "6", "7", "8", "9">>

\* str.isdigit of the text: not empty, digits only.
isdigit(t) == t # <<>> /\ \A i \in DOMAIN t : t[i] \in Range(Digits)

\* Value of a text of digits.
RECURSIVE DigitsValue(_)
DigitsValue(t) ==
    IF t = <<>> THEN 0
    ELSE 10 * DigitsValue(SubSeq(t, 1, Len(t) - 1))
         + ((CHOOSE d \in DOMAIN Digits : Digits[d] = t[Len(t)]) - 1)

\* str.strip(): leading and trailing blanks removed.
RECURSIVE strip(_)
strip(t) ==
    IF t = <<>> THEN t
    ELSE IF Head(t) = " " THEN strip(Tail(t))
    ELSE IF t[Len(t)] = " " THEN strip(SubSeq(t, 1, Len(t) - 1))
    ELSE t

\* str.lstrip('-'): every leading minus sign removed.
RECURSIVE lstrip_minus(_)
lstrip_minus(t) ==
    IF t # <<>> /\ Head(t) = "-" THEN lstrip_minus(Tail(t)) ELSE t

\* str.split(sep): the pieces between the separators.
RECURSIVE split(_, _)
split(t, sep) ==
    IF \A i \in DOMAIN t : t[i] # sep THEN <<t>>
    ELSE LET k == CHOOSE i \in DOMAIN t :
                      t[i] = sep /\ \A j \in 1..(i - 1) : t[j] # sep
         IN <<SubSeq(t, 1, k - 1)>> \o split(SubSeq(t, k + 1, Len(t)), sep)

\* int(text): blanks around, one optional sign, digits; ValueError otherwise.
int(t) ==
    LET u == strip(t)
        signed == u # <<>> /\ Head(u) \in {"-", "+"}
        body == IF signed THEN Tail(u) ELSE u
    IN IF isdigit(body)
       THEN [ok |-> TRUE,
             v |-> IF signed /\ Head(u) = "-" THEN 0 - DigitsValue(body)
                   ELSE DigitsValue(body)]
       ELSE [ok |-> FALSE, v |-> 0]

\* list(range(start, stop, step)) for step # 0.
RECURSIVE range(_, _, _)
range(start, stop, step) ==
    IF (step > 0 /\ start < stop) \/ (step < 0 /\ start > stop)
    THEN <<start>> \o range(start + step, stop, step)
    ELSE <<>>

\* result[name] = vals: a key already present keeps its place.
DictSet(d, name, vals) ==
    IF \E i \in DOMAIN d : d[i].name = name
    THEN [i \in DOMAIN d |-> IF d[i].name = name
                             THEN [name |-> name, vals |-> vals] ELSE d[i]]
    ELSE Append(d, [name |-> name, vals |-> vals])

\* _parse_grid, the body of the loop for one item of grid.split(','): the
\* dict after the item, or raised when int() of a part fails.
parse_item(result, item0) ==
    LET item  == strip(item0)
        pieces == split(item, "=")
        name  == strip(pieces[1])
        rng   == SubSeq(item, Len(pieces[1]) + 2, Len(item))
        parts == [i \in DOMAIN split(rng, ":") |-> strip(split(rng, ":")[i])]
    IN IF item = <<>> \/ Len(pieces) = 1 THEN [raised |-> FALSE, d |-> result]
       ELSE IF Len(parts) = 3 /\ \A i \in 1..3 : isdigit(lstrip_minus(parts[i]))
       THEN LET start == int(parts[1])
                stop  == int(parts[2])
                step  == int(parts[3])
            IN IF ~(start.ok /\ stop.ok /\ step.ok)
               THEN [raised |-> TRUE, d |-> result]
               ELSE IF step.v = 0 THEN [raised |-> FALSE, d |-> result]
               ELSE [raised |-> FALSE,
                     d |-> DictSet(result, name,
                              range(start.v,
                                    stop.v + (IF (stop.v - start.v) * step.v >= 0
                                              THEN 1 ELSE -1),
                                    step.v))]
       ELSE IF int(rng).ok
       THEN [raised |-> FALSE, d |-> DictSet(result, name, <<int(rng).v>>)]
       ELSE [raised |-> FALSE, d |-> result]

RECURSIVE parse_items(_, _)
parse_items(items, result) ==
    IF items = <<>> THEN [raised |-> FALSE, d |-> result]
    ELSE LET r == parse_item(result, Head(items))
         IN IF r.raised THEN r ELSE parse_items(Tail(items), r.d)

\* _parse_grid: the dict of name -> list of ints, or the ValueError.
_parse_grid(grd) ==
    IF grd = <<>> THEN [raised |-> FALSE, d |-> <<>>]
    ELSE parse_items(split(grd, ","), <<>>)

\* Grid strings given to run_optimize:
\*   'f=5:10:1,s=20:20:1'
\*   'f=10:5:-1'
\*   'f=1:6:2'
\*   'f=1:3:0,s=2'
\*   ''
\*   'f=x'
\*   'f=1:9:4,s=3:1:1,f=-2:-4:-2'
\*   ' f = 1 : 2 : 1 , s=0:1:1'
\*   'f=--1:3:1'
\*   's=20:22:1,f=19:21:1'
\*   'f=3:3:-1'
GridSpecs ==
    {<<"f", "=", "5", ":", "1", "0", ":", "1", ",", "s", "=", "2", "0",
         ":", "2", "0", ":", "1">>,
     <<"f", "=", "1", "0", ":", "5", ":", "-", "1">>,
     <<"f", "=", "1", ":", "6", ":", "2">>,
     <<"f", "=", "1", ":", "3", ":", "0", ",", "s", "=", "2">>,
     <<>>,
     <<"f", "=", "x">>,
     <<"f", "=", "1", ":", "9", ":", "4", ",", "s", "=", "3", ":", "1",
         ":", "1", ",", "f", "=", "-", "2", ":", "-", "4", ":", "-",
         "2">>,
     <<" ", "f", " ", "=", " ", "1", " ", ":", " ", "2", " ", ":", " ",
         "1", " ", ",", " ", "s", "=", "0", ":", "1", ":", "1">>,
     <<"f", "=", "-", "-", "1", ":", "3", ":", "1">>,
     <<"s", "=", "2", "0", ":", "2", "2", ":", "1", ",", "f", "=", "1",
         "9", ":", "2", "1", ":", "1">>,
     <<"f", "=", "3", ":", "3", ":", "-", "1">>}

\* An operand of a constraint expression, by its text: a name, an int
\* literal or a str literal.
Name(n) == [t |-> "name", v |-> n]
Lit(i) == [t |-> "int", v |-> i]
Str(x) == [t |-> "str", v |-> x]

\* Constraint expressions given to run_optimize: '', 'f<s', 'f<' (does not
\* parse), 'f<x' (x is no parameter), "f<'a'", 'f-s', 'f//s', '0'.
Constraints ==
    {[kind |-> "empty"],
     [kind |-> "lt", l |-> Name(<<"f">>), r |-> Name(<<"s">>)],
     [kind |-> "syntax"],
     [kind |-> "lt", l |-> Name(<<"f">>), r |-> Name(<<"x">>)],
     [kind |-> "lt", l |-> Name(<<"f">>), r |-> Str(<<"a">>)],
     [kind |-> "sub", l |-> Name(<<"f">>), r |-> Name(<<"s">>)],
     [kind |-> "floordiv", l |-> Name(<<"f">>), r |-> Name(<<"s">>)],
     [kind |-> "lit", l |-> Lit(<<"0">>)]}

\* Defaults of the numeric params of the strategy that is optimized.
StrategyParams == (<<"f">> :> 10) @@ (<<"s">> :> 30)

\* eval(expr, {"__builtins__": {}}, params): the value (True is 1, False
\* is 0), or raised for SyntaxError, NameError, TypeError, ZeroDivisionError.
eval(expr, params) ==
    LET Raise == [raised |-> TRUE, v |-> 0]
        Val(x) == [raised |-> FALSE, v |-> x]
        Known(o) == o.t # "name" \/ o.v \in DOMAIN params
        Of(o) == IF o.t = "name" THEN params[o.v] ELSE int(o.v).v
    IN IF expr.kind = "syntax" THEN Raise
       ELSE IF expr.kind = "lit" THEN Val(Of(expr.l))
       ELSE IF ~(Known(expr.l) /\ Known(expr.r)) THEN Raise
       ELSE IF expr.l.t = "str" \/ expr.r.t = "str" THEN Raise
       ELSE IF expr.kind = "lt" THEN Val(IF Of(expr.l) < Of(expr.r) THEN 1 ELSE 0)
       ELSE IF expr.kind = "sub" THEN Val(Of(expr.l) - Of(expr.r))
       ELSE IF Of(expr.r) = 0 THEN Raise
       ELSE Val(IF Of(expr.r) > 0 THEN Of(expr.l) \div Of(expr.r)
                ELSE (0 - Of(expr.l)) \div (0 - Of(expr.r)))

\* _constraint_ok that rejects a tuple whose evaluation raised.
constraint_ok_strict(params, expr) ==
    IF expr.kind = "empty" THEN TRUE
    ELSE ~eval(expr, params).raised /\ eval(expr, params).v # 0

\* _constraint_ok: True for an empty expression and when the evaluation
\* raised, bool(value) otherwise.
_constraint_ok(params, expr) ==
    IF expr.kind = "empty" THEN TRUE
    ELSE IF eval(expr, params).raised THEN TRUE
    ELSE eval(expr, params).v # 0

\* cerebro.optstrategy(StrategyCls, **grid): itertools.product of the value
\* lists in key order, the last key varying fastest.
RECURSIVE product(_)
product(d) ==
    IF d = <<>> THEN << <<>> >>
    ELSE LET rest == product(Tail(d))
             row(v) == [j \in DOMAIN rest |-> (Head(d).name :> v) @@ rest[j]]
             F[i \in 0..Len(Head(d).vals)] ==
                 IF i = 0 THEN <<>> ELSE F[i - 1] \o row(Head(d).vals[i])
         IN F[Len(Head(d).vals)]

\* run_optimize is called: the bars are fetched; with none it returns 1.
OptStart(grd, expr, df_empty) ==
    /\ opt_pc \in {"idle", "done", "raised"}
    /\ grid_spec' = grd
    /\ constraint' = expr
    /\ grid' = <<>>
    /\ flat' = <<>>
    /\ opt_rows' = <<>>
    /\ opt_rc' = IF df_empty THEN 1 ELSE NoneInt
    /\ opt_pc' = IF df_empty THEN "done" ELSE "parse"
    /\ UNCHANGED <<rows, lockedBy, results, jobs, claimCount>>
    /\ UNCHANGED <<wvars, bgvars, supvars, repovars, scalevars, wfovars>>
    /\ UNCHANGED unitvars

\* run_optimize: grid = _parse_grid(grid_spec); an empty dict returns 2, a
\* ValueError of _parse_grid leaves run_optimize.
OptParse ==
    /\ opt_pc = "parse"
    /\ LET r == _parse_grid(grid_spec)
       IN /\ grid' = r.d
          /\ opt_pc' = IF r.raised THEN "raised"
                       ELSE IF r.d = <<>> THEN "done" ELSE "run"
          /\ opt_rc' = IF ~r.raised /\ r.d = <<>> THEN 2 ELSE opt_rc
    /\ UNCHANGED <<grid_spec, constraint, flat, opt_rows>>
    /\ UNCHANGED <<rows, lockedBy, results, jobs, claimCount>>
    /\ UNCHANGED <<wvars, bgvars, supvars, repovars, scalevars, wfovars>>
    /\ UNCHANGED unitvars

\* run_optimize: optstrategy and cerebro.run; `flat` holds one strategy
\* instance for every combination of the grid.
OptRun ==
    /\ opt_pc = "run"
    /\ flat' = product(grid)
    /\ opt_pc' = "collect"
    /\ UNCHANGED <<grid_spec, constraint, grid, opt_rows, opt_rc>>
    /\ UNCHANGED <<rows, lockedBy, results, jobs, claimCount>>
    /\ UNCHANGED <<wvars, bgvars, supvars, repovars, scalevars, wfovars>>
    /\ UNCHANGED unitvars

\* The loop body without the constraint test.
OptCollectUnfiltered ==
    /\ opt_pc = "collect"
    /\ flat # <<>>
    /\ opt_rows' = Append(opt_rows, Head(flat) @@ StrategyParams)
    /\ flat' = Tail(flat)
    /\ UNCHANGED <<opt_pc, grid_spec, constraint, grid, opt_rc>>
    /\ UNCHANGED <<rows, lockedBy, results, jobs, claimCount>>
    /\ UNCHANGED <<wvars, bgvars, supvars, repovars, scalevars, wfovars>>
    /\ UNCHANGED unitvars

\* run_optimize, one iteration of `for strat in flat`: p_dict is read from
\* the params of the instance (the grid values over the defaults), the
\* constraint is tested, and the analyzers added before the run are read
\* into a new row.  `flat` keeps the instances not yet visited.
OptCollect ==
    /\ opt_pc = "collect"
    /\ flat # <<>>
    /\ LET p_dict == Head(flat) @@ StrategyParams
       IN opt_rows' = IF _constraint_ok(p_dict, constraint)
                      THEN Append(opt_rows, p_dict) ELSE opt_rows
    /\ flat' = Tail(flat)
    /\ UNCHANGED <<opt_pc, grid_spec, constraint, grid, opt_rc>>
    /\ UNCHANGED <<rows, lockedBy, results, jobs, claimCount>>
    /\ UNCHANGED <<wvars, bgvars, supvars, repovars, scalevars, wfovars>>
    /\ UNCHANGED unitvars

\* run_optimize after the loop: 3 when no row was collected, else the rows
\* are printed (sorted by final value, which is not modelled) and 0 returned.
OptFinish ==
    /\ opt_pc = "collect"
    /\ flat = <<>>
    /\ opt_rc' = IF opt_rows = <<>> THEN 3 ELSE 0
    /\ opt_pc' = "done"
    /\ UNCHANGED <<grid_spec, constraint, grid, flat, opt_rows>>
    /\ UNCHANGED <<rows, lockedBy, results, jobs, claimCount>>
    /\ UNCHANGED <<wvars, bgvars, supvars, repovars, scalevars, wfovars>>
    /\ UNCHANGED unitvars

\* ------------------------------------------------------ walk-forward
\* A timestamp is a calendar date; all bars carry the same time of day.

NoDate == [year |-> 0, month |-> 1, day |-> 1]

\* Days of a calendar month.
DaysIn(year, month) ==
    IF month = 2 THEN (IF year % 4 = 0 THEN 29 ELSE 28)
    ELSE IF month \in {4, 6, 9, 11} THEN 30 ELSE 31

\* Order of timestamps (<, <=, >= of the source compare these).
Key(dt) == (dt.year * 12 + dt.month) * 32 + dt.day

\* _month_delta: months added to year and month, day = min(dt.day, 28).
_month_delta(dt, months) ==
    [year  |-> dt.year + (dt.month - 1 + months) \div 12,
     month |-> ((dt.month - 1 + months) % 12) + 1,
     day   |-> Min(dt.day, 28)]

\* _slice_df_by_range: the bars with start <= ts <= end.
_slice_df_by_range(dfr, start, end) ==
    {t \in dfr : Key(t) >= Key(start) /\ Key(t) <= Key(end)}

\* df["ts"].min() and df["ts"].max().
ts_min(dfr) == CHOOSE t \in dfr : \A u \in dfr : Key(t) <= Key(u)
ts_max(dfr) == CHOOSE t \in dfr : \A u \in dfr : Key(t) >= Key(u)

\* Series _fetch_df may load: bars on the given days of every month, from
\* the first bar to the same day `span` months later.
Firsts == {[year |-> 2024, month |-> 1, day |-> 1],
           [year |-> 2023, month |-> 11, day |-> 15],
           [year |-> 2024, month |-> 1, day |-> 31]}
Spans == {12, 18, 19, 24}
BarDays(first) == {{first.day}, {first.day, 10}}
Bars(first, span, days) ==
    LET m0 == first.year * 12 + first.month - 1
        last == [year  |-> (m0 + span) \div 12,
                 month |-> ((m0 + span) % 12) + 1,
                 day   |-> Min(first.day, DaysIn((m0 + span) \div 12, ((m0 + span) % 12) + 1))]
    IN {t \in {[year |-> (m0 + k) \div 12, month |-> ((m0 + k) % 12) + 1,
                 day |-> d] : k \in 0..span, d \in days} :
           /\ t.day <= DaysIn(t.year, t.month)
           /\ Key(first) <= Key(t) /\ Key(t) <= Key(last)}

TrainMonths == {6, 12}
TestMonths == {3}
\* step_months is passed on as sent to the API; 0 is an integer it may send.
StepMonths == {0, 3, 6}

MaxFolds == 6

\* run_wfo is called: the bars are fetched (none: return 1), the grid is
\* parsed (empty: return 2), and the loop starts at the earliest timestamp.
WfoStart(bars, train_months, test_months, step_months, grid_ok, has_best) ==
    /\ wfo_pc \in {"idle", "done"}
    /\ df' = bars
    /\ wfo_args' = [train_months |-> train_months, test_months |-> test_months,
                    step_months |-> step_months, grid_ok |-> grid_ok,
                    has_best |-> has_best]
    /\ folds' = <<>>
    /\ IF bars = {}
       THEN wfo_rc' = 1 /\ wfo_pc' = "done" /\ train_start' = NoDate
       ELSE IF ~grid_ok
       THEN wfo_rc' = 2 /\ wfo_pc' = "done" /\ train_start' = NoDate
       ELSE wfo_rc' = NoneInt /\ wfo_pc' = "loop" /\ train_start' = ts_min(bars)
    /\ UNCHANGED <<rows, lockedBy, results, jobs, claimCount>>
    /\ UNCHANGED <<wvars, bgvars, supvars, repovars, scalevars, optvars>>
    /\ UNCHANGED unitvars

\* run_wfo, one pass of `while True`: derive the window, break when the
\* train window reaches the end of the series (then return 3 without folds,
\* 0 with), skip the window when a slice is empty or no row was collected
\* on the train slice, else run the best params on the test slice and
\* append the fold; train_start moves on by step_months.
WfoIterate ==
    /\ wfo_pc = "loop"
    /\ Len(folds) < MaxFolds
    /\ LET end_ts    == ts_max(df)
           train_end == _month_delta(train_start, wfo_args.train_months)
           test_end0 == _month_delta(train_end, wfo_args.test_months)
           test_start == train_end
           test_end  == IF Key(test_end0) <= Key(end_ts) THEN test_end0 ELSE end_ts
           train_df  == _slice_df_by_range(df, train_start, train_end)
           test_df   == _slice_df_by_range(df, test_start, test_end)
       IN IF \/ Key(train_end) >= Key(end_ts)
             \/ Key(train_start) >= Key(end_ts)
             \/ Key(test_start) >= Key(end_ts)
          THEN /\ wfo_pc' = "done"
               /\ wfo_rc' = IF folds = <<>> THEN 3 ELSE 0
               /\ UNCHANGED <<train_start, folds>>
          ELSE /\ train_start' = _month_delta(train_start, wfo_args.step_months)
               /\ folds' = IF train_df = {} \/ test_df = {} \/ ~wfo_args.has_best
                           THEN folds
                           ELSE Append(folds, [train_start |-> train_start,
                                               train_end   |-> train_end,
                                               test_start  |-> test_start,
                                               test_end    |-> test_end])
               /\ UNCHANGED <<wfo_pc, wfo_rc>>
    /\ UNCHANGED <<df, wfo_args>>
    /\ UNCHANGED <<rows, lockedBy, results, jobs, claimCount>>
    /\ UNCHANGED <<wvars, bgvars, supvars, repovars, scalevars, optvars>>
    /\ UNCHANGED unitvars

\* ------------------------------------------- best row of a train window
\* A train row carries its params (here the position of the candidate in the
\* enumeration) and its metrics; a metric is a number or None (NoneInt).

MaxRows == 3

\* float("-inf"): below every score.
NegInf == -1000

\* Metric values of the rows, and the objectives run_wfo is called with.
MetricArgs == {NoneInt, 1, 2}
Objectives == {<<"f", "i", "n", "a", "l">>, <<"F", "I", "N", "A", "L">>,
               <<"S", "h", "a", "r", "p", "e">>, <<"s", "q", "n">>}

NoPick == [called |-> FALSE, rows |-> <<>>, objective |-> <<>>, best |-> 0]

\* str.lower() on the letters that occur.
LowerOf == ("A" :> "a") @@ ("F" :> "f") @@ ("I" :> "i") @@ ("L" :> "l")
              @@ ("N" :> "n") @@ ("S" :> "s")
lower(t) == [i \in DOMAIN t |-> IF t[i] \in DOMAIN LowerOf THEN LowerOf[t[i]] ELSE t[i]]

\* row.get(key): None for a key the row does not have.
row_get(row, key) ==
    IF key = <<"f", "i", "n", "a", "l">> THEN row.final
    ELSE IF key = <<"s", "h", "a", "r", "p", "e">> THEN row.sharpe
    ELSE NoneInt

\* score: float(val), or float("-inf") when float() raises (val is None).
score(row, key) ==
    LET val == row_get(row, key)
    IN IF val = NoneInt THEN NegInf ELSE val

\* max(rows, key=score) taking a later row on an equal score.
max_by_last(rws, key) ==
    LET F[i \in 1..Len(rws)] ==
            IF i = 1 THEN 1
            ELSE IF score(rws[i], key) >= score(rws[F[i - 1]], key) THEN i
            ELSE F[i - 1]
    IN F[Len(rws)]

\* max(rows, key=score): the builtin keeps the item it holds unless a later
\* one compares strictly greater.  The result is the position of the row.
max_by(rws, key) ==
    LET F[i \in 1..Len(rws)] ==
            IF i = 1 THEN 1
            ELSE IF score(rws[i], key) > score(rws[F[i - 1]], key) THEN i
            ELSE F[i - 1]
    IN F[Len(rws)]

\* _pick_best_by_objective: None (0) for no rows, else the row of max().
_pick_best_by_objective(rws, objective) ==
    IF rws = <<>> THEN 0 ELSE max_by(rws, lower(objective))

\* run_wfo calls _pick_best_by_objective(train_rows, objective) for the
\* window at hand, whose candidates have the given final values and Sharpe
\* ratios.
PickBest(finals, sharpes, objective) ==
    /\ ~pick.called
    /\ Len(finals) = Len(sharpes)
    /\ LET train_rows == [i \in DOMAIN finals |->
                             [params |-> i, final |-> finals[i], sharpe |-> sharpes[i]]]
       IN pick' = [called |-> TRUE, rows |-> train_rows, objective |-> objective,
                   best |-> _pick_best_by_objective(train_rows, objective)]
    /\ UNCHANGED <<rows, lockedBy, results, jobs, claimCount>>
    /\ UNCHANGED <<wvars, bgvars, supvars>>
    /\ UNCHANGED <<repovars, scalevars, optvars, wfovars>>
    /\ UNCHANGED <<okxvars, logvars, queuevars>>

\* ------------------------------------------------ OKX market data client

NoCall == [called |-> FALSE, before |-> NULL, after |-> NULL,
           sdk |-> [raised |-> FALSE, exc |-> "", is_dict |-> FALSE,
                    code |-> [t |-> "absent", v |-> ""], msg |-> None,
                    message |-> None],
           outcome |-> NULL, error |-> <<>>]

\* The cursors get_candlesticks is called with (Optional[str]).
CursorArgs == {None, "", "1700000000000"}

\* The "code" entry of a response: absent, None, a string or an integer.
CodeArgs == <<[t |-> "absent", v |-> ""], [t |-> "none", v |-> ""],
              [t |-> "str", v |-> "0"], [t |-> "int", v |-> "0"],
              [t |-> "str", v |-> "1"], [t |-> "int", v |-> "1"],
              [t |-> "str", v |-> "51001"], [t |-> "str", v |-> ""]>>

\* The "msg" and "message" entries of a response: absent (None), or a string.
MsgArgs == {None, "", "Instrument ID does not exist"}

MsgFailed == "Failed to retrieve candlesticks"
MsgApiError == "OKX API error"
MsgUnknown == "unknown error"

\* `if before:` / `if after:` -- the cursor is passed on when it is truthy.
param_of(cursor) == IF cursor \notin {None, ""} THEN cursor ELSE NULL

\* `code not in ("0")`: only the string "0" is taken as success.
code_ok_str_only(code) == code.t = "str" /\ code.v = "0"

\* `code not in (None, "0", 0)` negated: code equals None, "0" or 0.
code_ok(code) ==
    \/ code.t \in {"absent", "none"}
    \/ code.t = "str" /\ code.v = "0"
    \/ code.t = "int" /\ code.v = "0"

\* response.get("msg") or response.get("message") or "unknown error".
message_of(msg, message) ==
    IF msg \notin {None, ""} THEN msg
    ELSE IF message \notin {None, ""} THEN message
    ELSE MsgUnknown

\* OkxMarketDataClient.get_candlesticks: the SDK call raises (wrapped into
\* OkxApiError), or returns a response that is checked for its code when it
\* is a dict and handed back otherwise.
GetCandlesticks(before, after, raised, exc_msg, is_dict, c, msg, message) ==
    /\ raised => (~is_dict /\ c = 1 /\ msg = None /\ message = None)
    /\ ~raised => exc_msg = ""
    /\ ~is_dict => (c = 1 /\ msg = None /\ message = None)
    /\ LET code == CodeArgs[c]
       IN okx' = [called |-> TRUE,
                  before |-> param_of(before), after |-> param_of(after),
                  sdk |-> [raised |-> raised, exc |-> exc_msg, is_dict |-> is_dict,
                           code |-> code, msg |-> msg, message |-> message],
                  outcome |-> IF raised THEN "raised"
                              ELSE IF is_dict /\ ~code_ok(code) THEN "raised"
                              ELSE "returned",
                  error |-> IF raised THEN <<MsgFailed, exc_msg>>
                            ELSE IF is_dict /\ ~code_ok(code)
                            THEN <<MsgApiError, code.v, message_of(msg, message)>>
                            ELSE <<>>]
    /\ UNCHANGED <<rows, lockedBy, results, jobs, claimCount>>
    /\ UNCHANGED <<wvars, bgvars, supvars>>
    /\ UNCHANGED <<repovars, scalevars, optvars, wfovars>>
    /\ UNCHANGED <<pickvars, logvars, queuevars>>

\* -------------------------------------------- captured engine output
\* Stream 1 is stdout (out_writer, INFO), stream 2 stderr (err_writer, ERROR).

Streams == 1..2
MaxPrints == 3

NL == "\n"

\* _last_line before the first forwarded line (None).
NoLine == <<NULL>>

NoOutput == [printed |-> [st \in Streams |-> <<>>],
             last_line |-> [st \in Streams |-> NoLine],
             entries |-> <<>>]

\* Texts the engine prints.
PrintArgs == {<<"a">>, <<"b">>, <<" ", "a", " ">>, <<>>, <<" ">>,
              <<"a", NL, "b">>, <<"a", NL, "a">>, <<NL, "a">>,
              <<"b", NL, NL, "b">>}

\* str.splitlines(): the pieces between line breaks, without an empty piece
\* after a final line break.
splitlines(t) ==
    IF t = <<>> THEN <<>>
    ELSE LET parts == split(t, NL)
         IN IF t[Len(t)] = NL THEN SubSeq(parts, 1, Len(parts) - 1) ELSE parts

\* The loop body of write that forwards every non-blank line.
write_line_all(w, st, line0) ==
    LET line == strip(line0)
    IN IF line # <<>>
       THEN [last_line |-> line,
             entries |-> Append(w.entries, <<st, line>>)]
       ELSE w

\* _Writer.write, the body of `for line in s.splitlines()`: the stripped
\* line is logged and remembered when it is non-empty and differs from
\* _last_line.  w holds _last_line of the writer and the entries logged.
write_line(w, st, line0) ==
    LET line == strip(line0)
    IN IF line # <<>> /\ line # w.last_line
       THEN [last_line |-> line,
             entries |-> Append(w.entries, <<st, line>>)]
       ELSE w

\* _Writer.write(s) of the writer of stream st.
write(w, st, t) ==
    LET lines == splitlines(t)
        F[i \in 0..Len(lines)] ==
            IF i = 0 THEN w ELSE write_line(F[i - 1], st, lines[i])
    IN F[Len(lines)]

\* The engine calls print(text) while stdout and stderr are redirected:
\* print writes the text and then the line end to the writer of the stream.
EnginePrint(st, text) ==
    /\ Len(log.printed[1]) + Len(log.printed[2]) < MaxPrints
    /\ LET w0 == [last_line |-> log.last_line[st], entries |-> log.entries]
           w2 == write(write(w0, st, text), st, <<NL>>)
       IN log' = [printed |-> [log.printed EXCEPT ![st] = Append(@, text)],
                  last_line |-> [log.last_line EXCEPT ![st] = w2.last_line],
                  entries |-> w2.entries]
    /\ UNCHANGED <<rows, lockedBy, results, jobs, claimCount>>
    /\ UNCHANGED <<wvars, bgvars, supvars>>
    /\ UNCHANGED <<repovars, scalevars, optvars, wfovars>>
    /\ UNCHANGED <<pickvars, okxvars, queuevars>>

\* ------------------------------------------ consumers of the job queue

\* Threads that call dequeue on the process-wide queue.
Consumers == 1..2
MaxDequeues == 4

\* InMemoryQueue.dequeue called by thread t.  The body runs under
\* self._lock, as the body of enqueue does, so a call is one step; the call
\* is recorded with the length of the queue it met.
Dequeue(t) ==
    /\ Len(q_out) < MaxDequeues
    /\ q_out' = Append(q_out, <<t, dequeue(jobs), Len(jobs)>>)
    /\ jobs' = IF jobs = <<>> THEN jobs ELSE Tail(jobs)
    /\ UNCHANGED <<rows, lockedBy, results, claimCount>>
    /\ UNCHANGED <<wvars, bgvars, supvars>>
    /\ UNCHANGED <<repovars, scalevars, optvars, wfovars>>
    /\ UNCHANGED <<pickvars, okxvars, logvars>>

\* --------------------------------------------------------- specifications

Init ==
    /\ rows = <<>>
    /\ lockedBy = [r \in RunIds |-> 0]
    /\ results = {}
    /\ jobs = <<>>
    /\ pc = Idle
    /\ cur = [w \in Workers |-> NoRun]
    /\ rtype = [w \in Workers |-> NULL]
    /\ last_pct = [w \in Workers |-> 0]
    /\ rc = [w \in Workers |-> NoneInt]
    /\ res_out = [w \in Workers |-> FALSE]
    /\ exc = [w \in Workers |-> NULL]
    /\ claimCount = [r \in RunIds |-> 0]
    /\ bg_pc = "off"
    /\ bg_run = NoRun
    /\ sup_pc = "off"
    /\ sup_workers = <<>>
    /\ us_call = [run_id |-> NoRun, exc |-> NULL]
    /\ scale = [queued |-> 0, cap |-> PROC_CAPACITY, min |-> MIN_PROCS,
                max |-> MAX_PROCS, desired |-> NoneInt]
    /\ opt_pc = "idle"
    /\ grid_spec = <<>>
    /\ constraint = [kind |-> "empty"]
    /\ grid = <<>>
    /\ flat = <<>>
    /\ opt_rows = <<>>
    /\ opt_rc = NoneInt
    /\ wfo_pc = "idle"
    /\ df = {}
    /\ wfo_args = [train_months |-> 0, test_months |-> 0, step_months |-> 0,
                   grid_ok |-> FALSE, has_best |-> FALSE]
    /\ train_start = NoDate
    /\ folds = <<>>
    /\ wfo_rc = NoneInt
    /\ pick = NoPick
    /\ okx = NoCall
    /\ log = NoOutput
    /\ q_out = <<>>

\* The deployed system: the API, and worker_main with its worker loops.
Next ==
    \/ ApiEnqueue
    \/ \E w \in Workers : StartWorker(w)
    \/ \E w \in Workers : WorkerStep(w)

Spec == Init /\ [][Next]_vars

\* The same, with a store whose calls may fail.
NextFaulty ==
    \/ ApiEnqueue
    \/ \E w \in Workers : StartWorker(w)
    \/ \E w \in Workers : WorkerStepFaulty(w)

SpecFaulty == Init /\ [][NextFaulty]_vars

\* The API, the supervisor and the worker processes it spawns.
NextOps ==
    \/ ApiEnqueue
    \/ SupStart
    \/ \E ok \in BOOLEAN : SupIterate(ok)
    \/ SupStop
    \/ \E p \in Workers : Shutdown(p)
    \/ \E w \in Workers : WorkerStep(w)

SpecOps == Init /\ [][NextOps]_vars

\* The API, the supervisor with a store whose calls succeed, and the worker
\* processes it spawns, none of them interrupted by an operator.
NextSup ==
    \/ ApiEnqueue
    \/ SupStart
    \/ SupIterate(TRUE)
    \/ SupStop
    \/ \E w \in Workers : WorkerStep(w)

SpecSup == Init /\ [][NextSup]_vars

\* The deployed system plus the background worker of the in-memory queue.
NextDev ==
    \/ ApiEnqueue
    \/ \E w \in Workers : StartWorker(w)
    \/ \E w \in Workers : WorkerStep(w)
    \/ BgStep

SpecDev == Init /\ [][NextDev]_vars

\* The API and callers of update_status with arbitrary run ids.
NextRepo ==
    \/ ApiEnqueue
    \/ \E run_id \in RunIdArgs, status \in StatusArgs,
          progress \in ProgressArgs, error \in ErrorArgs :
          CallUpdateStatus(run_id, status, progress, error)

SpecRepo == Init /\ [][NextRepo]_vars

\* The scaling decision of the supervisor for every queued count and setting.
NextScale ==
    \E queued \in 0..MaxQueued, proc_capacity \in CapacityArgs,
       min_procs \in ProcsArgs, max_procs \in ProcsArgs :
       ComputeDesired(queued, proc_capacity, min_procs, max_procs)

SpecScale == Init /\ [][NextScale]_vars

\* run_optimize over the grid strings and constraint expressions.
NextOpt ==
    \/ \E grd \in GridSpecs, expr \in Constraints, df_empty \in BOOLEAN :
          OptStart(grd, expr, df_empty)
    \/ OptParse
    \/ OptRun
    \/ OptCollect
    \/ OptFinish

SpecOpt == Init /\ [][NextOpt]_vars

\* run_wfo over the series and window settings.
NextWfo ==
    \/ \E first \in Firsts, span \in Spans, tr \in TrainMonths,
          te \in TestMonths, st \in StepMonths, g \in BOOLEAN, b \in BOOLEAN :
          \E days \in BarDays(first) \cup {{}} :
             WfoStart(Bars(first, span, days), tr, te, st, g, b)
    \/ WfoIterate

SpecWfo == Init /\ [][NextWfo]_vars

\* _pick_best_by_objective over the train rows of a window.
NextPick ==
    \E n \in 0..MaxRows, objective \in Objectives :
       \E finals \in [1..n -> MetricArgs], sharpes \in [1..n -> MetricArgs] :
          PickBest(finals, sharpes, objective)

SpecPick == Init /\ [][NextPick]_vars

\* get_candlesticks over the cursors and the answers of the SDK.
NextOkx ==
    \E before \in CursorArgs, after \in CursorArgs, raised \in BOOLEAN,
       exc_msg \in ExcMsgs, is_dict \in BOOLEAN, c \in DOMAIN CodeArgs,
       msg \in MsgArgs, message \in MsgArgs :
       GetCandlesticks(before, after, raised, exc_msg, is_dict, c, msg, message)

SpecOkx == Init /\ [][NextOkx]_vars

\* The output an engine call prints to the two captured streams.
NextLog ==
    \E st \in Streams, text \in PrintArgs : EnginePrint(st, text)

SpecLog == Init /\ [][NextLog]_vars

\* The API enqueueing jobs and threads dequeueing them.
NextQueue ==
    \/ ApiEnqueue
    \/ \E t \in Consumers : Dequeue(t)

SpecQueue == Init /\ [][NextQueue]_vars

\* ------------------------------------------------------------- properties

\* C1: however the claim steps of the pollers interleave, a run is returned
\* by at most one claim step, and every run that has left "queued" was
\* returned by exactly one; no two worker loops hold the same run.
ClaimedExactlyOnce ==
    /\ \A r \in DOMAIN rows :
          claimCount[r] = IF rows[r].status = "queued" THEN 0 ELSE 1
    /\ \A w1, w2 \in Workers :
          (w1 # w2 /\ cur[w1] # NoRun) => cur[w1] # cur[w2]

\* Two pollers are inside their claim transactions at the same time: the
\* second one skipped the row the first has locked and took the next.
ContendedClaim ==
    \E w1, w2 \in Workers :
        /\ w1 # w2
        /\ pc[w1] = "claimed" /\ pc[w2] = "claimed"
        /\ lockedBy[cur[w1]] = w1 /\ lockedBy[cur[w2]] = w2

\* C2: a run's status changes only along queued -> running,
\* running -> succeeded and running -> failed.
StatusChangesAlongEdges ==
    [][\A r \in DOMAIN rows :
          rows'[r].status # rows[r].status
             => <<rows[r].status, rows'[r].status>>
                   \in {<<"queued", "running">>, <<"running", "succeeded">>,
                        <<"running", "failed">>}]_vars

\* C3: while a run stays "running", no write lowers its progress.
ProgressNonDecreasing ==
    [][\A r \in DOMAIN rows :
          (rows[r].status = "running" /\ rows'[r].status = "running")
             => rows'[r].progress >= rows[r].progress]_vars

\* C4: a run whose status is succeeded or failed has progress 100.
TerminalProgressIs100 ==
    \A r \in DOMAIN rows :
        rows[r].status \in Terminal => rows[r].progress = 100

\* One run ended by the except clause and one by the empty-result path.
FailedAndEmptySucceeded ==
    \E r1, r2 \in DOMAIN rows :
        /\ rows[r1].status = "failed" /\ rows[r1].error \in ExcMsgs
        /\ rows[r2].status = "succeeded"
        /\ rows[r2].error \in {MsgNoResults, MsgNoFolds}

ErrorOnlyOnFailure ==
    \A r \in DOMAIN rows :
        rows[r].error # NULL => rows[r].status = "failed"

\* C7: when the handler (or the persisting of its results) raised, the
\* iteration ends with the run failed and a non-empty error holding the
\* exception message, and the loop is on its way to the next poll.
RaiseEndsFailedWithMessage ==
    \A w \in Workers :
        (pc[w] = "sleep" /\ exc[w] # NULL)
           => /\ rows[cur[w]].status = "failed"
              /\ rows[cur[w]].error = exc[w]
              /\ rows[cur[w]].error # ""

\* C8: no worker loop and no supervisor loop is ever ended by a failure.
NoLoopEndedByFailure ==
    /\ \A w \in Workers : pc[w] # "crashed"
    /\ sup_pc # "crashed"

\* C9: a run in status running always has a live worker loop executing its
\* handler: nothing takes the processor away mid-run.  Only that loop writes
\* the row, so a running run without one never reaches succeeded or failed.
RunningRunHasProcessor ==
    \A r \in DOMAIN rows :
        rows[r].status = "running"
           => \E w \in Workers : cur[w] = r /\ pc[w] \in InFlight

\* C10: the background worker of the in-memory queue never changes the row
\* of a run that a polling worker loop has claimed.
BgNeverWritesClaimedRun ==
    [][\A r \in DOMAIN rows :
          (bg_pc' # bg_pc /\ rows'[r] # rows[r]) => claimCount[r] = 0]_vars

\* C11: a poll returns the queued run of a supported type with the earliest
\* started_at among the rows no other transaction has locked, and returns
\* none (the loop goes to sleep, nothing raised, no lock taken) when there
\* is no such row; every queued run submitted before the returned one was
\* locked, so an uncontended poller claims in submission order.
FetchReturnsEarliestUnlocked ==
    [][\A w \in Workers :
          (pc[w] = "poll" /\ pc'[w] # "poll")
             => LET free == {r \in DOMAIN rows :
                                /\ rows[r].status = "queued"
                                /\ rows[r].run_type \in {"backtest", "optimize", "wfo"}
                                /\ lockedBy[r] = 0}
                IN IF free = {}
                   THEN pc'[w] = "sleep" /\ cur'[w] = NoRun /\ lockedBy' = lockedBy
                   ELSE /\ pc'[w] = "claimed"
                        /\ cur'[w] \in free
                        /\ \A q \in free :
                              rows[cur'[w]].started_at <= rows[q].started_at
                        /\ \A q \in DOMAIN rows :
                              (q < cur'[w] /\ rows[q].status = "queued")
                                 => lockedBy[q] # 0]_vars

\* A poll returned the second run while the first, still queued, was locked
\* by another poller.
SkippedLockedRow ==
    \E w \in Workers :
        /\ pc[w] = "claimed" /\ cur[w] = 2
        /\ rows[1].status = "queued"
        /\ lockedBy[1] \in Workers \ {w}

\* C12: update_status called with a run id that has no row raises the
\* 'run not found' error and changes no row; a call that returns normally
\* always had a row to update.
UpdateStatusMissingRunRaises ==
    [][us_call' # us_call
          => /\ us_call'.run_id \notin DOMAIN rows
                => (us_call'.exc = MsgNotFound /\ rows' = rows)
             /\ us_call'.exc = NULL => us_call'.run_id \in DOMAIN rows]_vars

\* A call for a missing id has raised while the table holds other rows.
MissingRunRaised ==
    /\ us_call.exc = MsgNotFound
    /\ us_call.run_id \notin DOMAIN rows
    /\ rows # <<>>

\* C13: for queued >= 0, capacity >= 1 and min <= max the desired process
\* count is the ceiling of queued / capacity clamped into [min, max], so it
\* lies between min and max; 9 queued at capacity 3 with min 1 and max 4
\* give 3, and 0 queued give min.
DesiredIsClampedCeiling ==
    (scale.desired # NoneInt /\ scale.cap >= 1 /\ scale.min <= scale.max)
       => LET c == CHOOSE n \in 0..scale.queued :
                      /\ n * scale.cap >= scale.queued
                      /\ \A m \in 0..(n - 1) : m * scale.cap < scale.queued
              clamp == IF c < scale.min THEN scale.min
                       ELSE IF c > scale.max THEN scale.max ELSE c
          IN /\ scale.desired = clamp
             /\ scale.min <= scale.desired /\ scale.desired <= scale.max
             /\ scale.queued = 0 => scale.desired = scale.min
             /\ (scale.queued = 9 /\ scale.cap = 3 /\ scale.min = 1 /\ scale.max = 4)
                   => scale.desired = 3

\* The decision for 9 queued runs at capacity 3, min 1, max 4 has been made.
NineQueuedGiveThree ==
    scale = [queued |-> 9, cap |-> 3, min |-> 1, max |-> 4, desired |-> 3]

\* C14: when the supervisor scales down, it removes (current - desired)
\* processes from the head of its list, the oldest-spawned ones: the
\* processes it keeps are the most recently spawned.
ScaleDownTerminatesOldest ==
    [][LET alive == SelectSeq(sup_workers, LAMBDA p : pc[p] # "exited")
           kept  == Len(sup_workers')
       IN (sup_pc = "run" /\ sup_pc' = "run" /\ kept < Len(alive))
             => /\ sup_workers' = SubSeq(alive, Len(alive) - kept + 1, Len(alive))
                /\ \A i \in 1..(Len(alive) - kept) : pc'[alive[i]] = "off"]_vars

\* C15: no step of the supervisor (starting, counting, pruning, scaling up
\* or down, stopping) changes a row of the run store, a result or the job
\* queue; it changes only the worker processes.
SupervisorLeavesRunStore ==
    [][(sup_pc' # sup_pc \/ sup_workers' # sup_workers)
          => (rows' = rows /\ results' = results /\ jobs' = jobs)]_vars

\* The supervisor has terminated its processes and stopped while a run that
\* one of them had claimed is still marked running.
StoppedBesideRunningRun ==
    /\ sup_pc = "stopped"
    /\ \A p \in Workers : pc[p] \in {"off", "exited"}
    /\ \E r \in DOMAIN rows : rows[r].status = "running"

ParsedRangeIsInclusive ==
    opt_pc \in {"run", "collect"}
       => \A i \in DOMAIN split(grid_spec, ",") :
             LET items == split(grid_spec, ",")
                 item  == strip(items[i])
                 name  == strip(split(item, "=")[1])
                 parts == split(SubSeq(item, Len(split(item, "=")[1]) + 2, Len(item)), ":")
                 a     == int(parts[1]).v
                 b     == int(parts[2]).v
                 c     == int(parts[3]).v
                 lo    == IF a <= b THEN a ELSE b
                 hi    == IF a <= b THEN b ELSE a
                 last  == \A j \in DOMAIN items :
                             j > i => strip(split(strip(items[j]), "=")[1]) # name
             IN (/\ Len(split(item, "=")) = 2
                 /\ Len(parts) = 3
                 /\ \A j \in 1..3 : int(parts[j]).ok
                 /\ c # 0
                 /\ last)
                   => \E k \in DOMAIN grid :
                         /\ grid[k].name = name
                         /\ Range(grid[k].vals)
                               = {v \in lo..hi : \E n \in 0..(hi - lo) : v = a + n * c}
                         /\ Len(grid[k].vals) = Cardinality(Range(grid[k].vals))

WindowsFollowSchedule ==
    [][LET Plus(dt, n) ==
               LET y == dt.year + (dt.month - 1 + n) \div 12
                   m == ((dt.month - 1 + n) % 12) + 1
               IN [year |-> y, month |-> m,
                   day |-> IF dt.day <= DaysIn(y, m) THEN dt.day ELSE DaysIn(y, m)]
           Earlier(a, b) ==
               \/ a.year < b.year
               \/ a.year = b.year /\ a.month < b.month
               \/ a.year = b.year /\ a.month = b.month /\ a.day < b.day
       IN /\ (wfo_pc # "loop" /\ wfo_pc' = "loop")
                => /\ train_start' \in df'
                   /\ \A t \in df' : ~Earlier(t, train_start')
          /\ (wfo_pc = "loop" /\ wfo_pc' = "loop" /\ train_start' # train_start)
                => train_start' = Plus(train_start, wfo_args.step_months)
          /\ (wfo_pc = "loop" /\ folds' # folds)
                => LET w == folds'[Len(folds')]
                       end_ts == CHOOSE t \in df : \A u \in df : ~Earlier(t, u)
                       te == Plus(w.test_start, wfo_args.test_months)
                   IN /\ folds' = Append(folds, w)
                      /\ w.train_start = train_start
                      /\ w.train_end = Plus(w.train_start, wfo_args.train_months)
                      /\ w.test_start = w.train_end
                      /\ w.test_end = IF Earlier(end_ts, te) THEN end_ts ELSE te
                      /\ Earlier(w.train_start, end_ts)
                      /\ Earlier(w.train_end, end_ts)]_vars

\* C20: with train_months = 12, test_months = 3, step_months = 3, a grid
\* that parses, a best row in every window and a series whose last bar is
\* exactly 18 months after its first, run_wfo ends with exactly 2 folds, in
\* window order (fold_index 0 and 1 are the positions in `folds`), and no
\* bar is in the test slice of both.
TwoFoldsOverEighteenMonths ==
    (/\ wfo_pc = "done"
     /\ wfo_args = [train_months |-> 12, test_months |-> 3, step_months |-> 3,
                    grid_ok |-> TRUE, has_best |-> TRUE]
     /\ df # {}
     /\ \E a, b \in df :
           /\ \A t \in df : Key(a) <= Key(t) /\ Key(t) <= Key(b)
           /\ (b.year * 12 + b.month) - (a.year * 12 + a.month) = 18
           /\ b.day = a.day)
       => /\ Len(folds) = 2
          /\ Key(folds[1].train_start) < Key(folds[2].train_start)
          /\ Key(folds[1].test_start) < Key(folds[2].test_start)
          /\ _slice_df_by_range(df, folds[1].test_start, folds[1].test_end)
                \cap _slice_df_by_range(df, folds[2].test_start, folds[2].test_end)
                = {}

\* C21: the row selected for a window has the maximum objective value among
\* the train rows, and every row before it in enumeration order has a
\* smaller one: of several rows with the maximum the first is selected.
\* Without rows nothing is selected.
BestIsFirstMaximum ==
    pick.called
       => LET key == lower(pick.objective)
              val(i) == score(pick.rows[i], key)
          IN IF pick.rows = <<>> THEN pick.best = 0
             ELSE /\ pick.best \in DOMAIN pick.rows
                  /\ \A j \in DOMAIN pick.rows : val(j) <= val(pick.best)
                  /\ \A j \in 1..(pick.best - 1) : val(j) < val(pick.best)

\* Three rows, the second and third sharing the maximum Sharpe ratio: the
\* second is selected under the objective "Sharpe".
SecondOfThreeSelected ==
    /\ pick.called
    /\ pick.objective = <<"S", "h", "a", "r", "p", "e">>
    /\ Len(pick.rows) = 3
    /\ pick.rows[1].sharpe = 1 /\ pick.rows[2].sharpe = 2 /\ pick.rows[3].sharpe = 2
    /\ pick.best = 2

\* C23: get_candlesticks returns the response of the SDK exactly when the
\* SDK call did not raise and the response has no code or the code "0" or
\* 0; when the SDK call raised it raises OkxApiError "Failed to retrieve
\* candlesticks", and on any other code OkxApiError "OKX API error <code>";
\* a call that raises returns nothing.
CandlesticksReturnedOrRaised ==
    okx.called
       => LET code == okx.sdk.code
              clean == \/ ~okx.sdk.is_dict
                       \/ code.t \in {"absent", "none"}
                       \/ code = [t |-> "str", v |-> "0"]
                       \/ code = [t |-> "int", v |-> "0"]
          IN /\ okx.outcome = "returned" <=> (~okx.sdk.raised /\ clean)
             /\ okx.outcome \in {"returned", "raised"}
             /\ okx.outcome = "returned" => okx.error = <<>>
             /\ okx.sdk.raised
                   => okx.outcome = "raised" /\ okx.error[1] = MsgFailed
             /\ (~okx.sdk.raised /\ ~clean)
                   => /\ okx.outcome = "raised"
                      /\ okx.error[1] = MsgApiError /\ okx.error[2] = code.v

\* The SDK answered with code "51001": the call raised "OKX API error 51001".
ErrorCodeRaised ==
    /\ okx.called
    /\ ~okx.sdk.raised
    /\ okx.sdk.code = [t |-> "str", v |-> "51001"]
    /\ okx.outcome = "raised"
    /\ okx.error = <<MsgApiError, "51001", "Instrument ID does not exist">>

QueueHandsOutFifoOnce ==
    LET got == SelectSeq(q_out, LAMBDA o : o[2] # NoRun)
    IN /\ [i \in DOMAIN got |-> got[i][2]] \o jobs = [i \in 1..Len(rows) |-> i]
       /\ \A n \in DOMAIN q_out : q_out[n][2] = NoRun <=> q_out[n][3] = 0

\* Two threads took the two jobs in the order enqueued, after one of them
\* had met the empty queue.
TwoConsumersInOrder ==
    /\ Len(q_out) = 3
    /\ q_out[1][2] = NoRun
    /\ q_out[2] = <<1, 1, 2>>
    /\ q_out[3] = <<2, 2, 1>>

\* C22: a walk-forward run whose engine call produced no folds (return code
\* 3), or had no grid to produce any from (return code 2), ends succeeded
\* with no error recorded.
ZeroFoldsEndSucceededWithoutError ==
    \A w \in Workers :
        (pc[w] = "sleep" /\ rtype[w] = "wfo" /\ rc[w] \in {2, 3})
           => /\ rows[cur[w]].status = "succeeded"
              /\ rows[cur[w]].error = NULL

CountedQueuedAreClaimable ==
    get_counts(rows, "queued")
       = Cardinality({r \in DOMAIN rows : /\ rows[r].run_type \in SupportedTypes
                                           /\ rows[r].status = "queued"})

\* C27: a succeeded backtest run whose engine call produced metrics has its
\* "main" result row.
SucceededBacktestHasMainResult ==
    \A w \in Workers :
        (cur[w] # NoRun /\ rtype[w] = "backtest" /\ res_out[w]
            /\ rows[cur[w]].status = "succeeded")
           => <<cur[w], "main">> \in results

\* C28: every pass of the window loop that goes on to another pass, a skip
\* included, moves train_start forward.
TrainStartAdvances ==
    [][(wfo_pc = "loop" /\ wfo_pc' = "loop")
          => Key(train_start') > Key(train_start)]_vars

\* C29: in every fold no bar is both in the train slice and in the test
\* slice.
TestSliceOutOfSample ==
    \A i \in DOMAIN folds :
        _slice_df_by_range(df, folds[i].train_start, folds[i].train_end)
           \cap _slice_df_by_range(df, folds[i].test_start, folds[i].test_end) = {}

====
